---- MODULE Spec2Model ----
(***************************************************************************)
(* One virtual device (class TCPDevice of src/src/devices/TCPDevice.js)    *)
(* on the Node.js event loop: its fields, the socket it holds, the         *)
(* _onReadData invocations that are asleep in `await this._sleep()`, and   *)
(* the timers it has armed.  Every handler of the class is one atomic      *)
(* step, as it is on the single-threaded event loop; the only suspension   *)
(* inside a handler that matters here is the 100 ms sleep at the head of   *)
(* _onReadData, which is why a received chunk first joins the timer queue  *)
(* and is processed by a later step.                                       *)
(***************************************************************************)
EXTENDS Integers, Sequences, FiniteSets, TLC

\* ------------------------------------------------------------------ bounds
\* _onReadData invocations asleep at the same time.
MaxInFlight == 2
\* Reconnect timers pending at the same time.
MaxTimers == 2
\* CoAP packets generated after one handshake.
MaxSent == 3
\* Handlers registered on the 'ACK' event at the same time.
MaxWaits == 1
\* HMAC values are drawn from 0..MaxHmac, ordered as Buffer.compare orders.
MaxHmac == 1
\* Message ids a long session consumes in one stretch.
BurstSize == 16
\* Messages framed by a ChunkingStream pair: how many, and how long.
MaxMsgs == 2
MaxMsgLen == 3
\* Messages of a CryptoStream pair are up to MaxBlocks cipher blocks long.
MaxBlocks == 1
\* The fleet: the ids the server lists, the sessions ever constructed, and the
\* largest amount typed at a prompt.
MaxClaimed == 2
MaxSessions == 3
MaxAmount == 2

\* -------------------------------------------------------- program constants
COUNTER_MAX == 65536

\* Bytes 32 and 33 of the session keys a server may send.
KeyTails == {<<0, 0>>, <<255, 254>>}

\* (sessionKey[32] << 8) | sessionKey[33]
U16BE(b) == b[1] * 256 + b[2]

\* The big-endian u16 in bytes 32..34 of the session key.
InitialIDs == {U16BE(b) : b \in KeyTails}

HmacValues == 0..MaxHmac

\* What the bytes of a chunk turn out to be when the 'set-session-key' branch
\* reads them: whether cipherText decrypts under the device key and signedHMAC
\* under the server key, the HMAC the device computes (hash), the HMAC the
\* server signed (got), and bytes 32 and 33 of the session key.
Chunks ==
    [rsaOk : BOOLEAN, hash : HmacValues, got : HmacValues, tail : KeyTails]

NoChunk == [rsaOk |-> FALSE, hash |-> 0, got |-> 0, tail |-> <<0, 0>>]

\* Inbound frames: one whose AES-CBC decryption fails ("garbled"), or a CoAP
\* message, by what _onNewCoapMessage reads of it: the first Uri-Path segment
\* ("x" is a segment the device does not know), or "ack" for an empty ACK.
CoapKinds == {"h", "d", "f", "v", "e", "x", "ack", "garbled"}

\* The tokens of the server's requests; a packet without a token has token 0.
Tokens == {1, 2}

VARIABLES
    state,            \* _state
    isConnecting,     \* _isConnecting (undefined is FALSE)
    isConnected,      \* _isConnected
    isDisconnected,   \* _isDisconnected
    messageID,        \* _messageID
    socket,           \* _socket
    orphans,          \* sockets replaced by connect() while not destroyed
    timerQueue,       \* pending _sleep(100) of _onReadData and reconnect timers
    pingInterval,     \* _pingInterval is set
    pingTimers,       \* live setInterval timers
    helloTimeout,     \* the timer _helloTimeout names is pending
    cipherStream,     \* _cipherStream
    decipherStream,   \* _decipherStream
    ackWaits,         \* handlers of _waitForResponse on 'ACK', with their timers
    sent,             \* message ids consumed since the last handshake
    throttle,         \* packets held by the outbound NetworkThrottleStream
    wire,             \* packets written to the current socket, oldest first
    last,             \* what the last handler did
    codec,            \* an outgoing ChunkingStream feeding an incoming one
    chain,            \* an encrypting CryptoStream feeding a decrypting one
    devices,          \* App._devices
    existingDeviceIDs,\* App._existingDeviceIDs
    keyFiles,         \* the device ids that have a key file in data/keys
    built,            \* TCPDevice objects constructed so far
    fleetLast         \* what the last menu operation did

progVars ==
    <<state, isConnecting, isConnected, isDisconnected, messageID, socket,
      orphans, timerQueue, pingInterval, pingTimers, helloTimeout,
      cipherStream, decipherStream, ackWaits, sent, throttle, wire>>

fleetVars == <<devices, existingDeviceIDs, keyFiles, built, fleetLast>>

vars == <<progVars, last, codec, chain, fleetVars>>

\* this._socket before the first connect(): undefined.
NoSocket ==
    [exists |-> FALSE, destroyed |-> FALSE, closed |-> FALSE, data |-> FALSE,
     events |-> FALSE, piped |-> FALSE]

\* What one run of a handler did that the fields do not show: whether it threw,
\* its writes to the raw socket, the packets it wrote to the encrypt stream, the
\* branch it took, whether it opened a socket, destroyed one or armed a
\* reconnect timer and, in the 'set-session-key' branch, what the chunk held
\* (hmac is how the computed and the signed HMAC sort, 2 when unread); wroteIn
\* holds, for each packet written, the flags of the session at that statement.
NoLog ==
    [threw |-> FALSE, rawWrites |-> 0, frames |-> <<>>, branch |-> "none",
     opened |-> FALSE, scheduled |-> 0, rsaOk |-> FALSE, hmac |-> 2,
     packet |-> [kind |-> "none", mid |-> 0, token |-> 0], wroteIn |-> <<>>]

\* The device as one record, so that a handler is a function of it.
Dev ==
    [state |-> state, isConnecting |-> isConnecting, isConnected |-> isConnected,
     isDisconnected |-> isDisconnected, messageID |-> messageID,
     socket |-> socket, orphans |-> orphans, timerQueue |-> timerQueue,
     pingInterval |-> pingInterval, pingTimers |-> pingTimers,
     helloTimeout |-> helloTimeout, cipherStream |-> cipherStream,
     decipherStream |-> decipherStream, ackWaits |-> ackWaits, sent |-> sent,
     throttle |-> throttle, wire |-> wire, log |-> NoLog]

\* How two HMAC values sort: -1, 0 or 1 as a sorts before, equal to or after b.
HmacOrder(a, b) == IF a < b THEN -1 ELSE IF a = b THEN 0 ELSE 1

\* Buffer.compare, as hash.compare(decryptedHMAC) calls it.
compare(a, b) == HmacOrder(a, b)

\* The items of the timer queue of one kind.
Count(q, kind) == Cardinality({i \in 1..Len(q) : q[i] = kind})

\* The queue without its i-th item.
Without(q, i) == SubSeq(q, 1, i - 1) \o SubSeq(q, i + 1, Len(q))

\* ---------------------------------------------------------------- handlers
\* connect without its _isConnecting guard.
connect_unguarded(d) ==
    [d EXCEPT !.isConnecting = TRUE,
              !.orphans = IF d.socket.exists /\ ~d.socket.destroyed
                          THEN @ + 1 ELSE @,
              !.socket = [exists |-> TRUE, destroyed |-> FALSE,
                          closed |-> FALSE, data |-> TRUE,
                          events |-> TRUE, piped |-> FALSE],
              !.cipherStream.attached = FALSE,
              !.wire = <<>>,
              !.log.opened = TRUE]

connect(d) ==
    IF d.isConnecting THEN d
    ELSE [d EXCEPT !.isConnecting = TRUE,
                   !.orphans = IF d.socket.exists /\ ~d.socket.destroyed
                               THEN @ + 1 ELSE @,
                   !.socket = [exists |-> TRUE, destroyed |-> FALSE,
                               closed |-> FALSE, data |-> TRUE,
                               events |-> TRUE, piped |-> FALSE],
                   !.cipherStream.attached = FALSE,
                   !.wire = <<>>,
                   !.log.opened = TRUE]

\* _disconnect that leaves the ping interval running.
_disconnect_keepsPing(d) ==
    IF d.isDisconnected THEN d
    ELSE LET d1 == [d EXCEPT !.isConnecting = FALSE,
                             !.isConnected = FALSE,
                             !.state = "nonce",
                             !.decipherStream.listening = FALSE]
         IN  IF ~d.socket.exists
             THEN [d1 EXCEPT !.log.threw = TRUE]
             ELSE [d1 EXCEPT !.socket.data = FALSE,
                             !.socket.events = FALSE,
                             !.socket.piped = FALSE,
                             !.socket.destroyed = TRUE]

\* _disconnect that does not destroy the socket.
_disconnect_keepsSocket(d) ==
    IF d.isDisconnected THEN d
    ELSE LET d1 == [d EXCEPT !.isConnecting = FALSE,
                             !.isConnected = FALSE,
                             !.state = "nonce",
                             !.decipherStream.listening = FALSE]
         IN  IF ~d.socket.exists
             THEN [d1 EXCEPT !.log.threw = TRUE]
             ELSE [d1 EXCEPT !.socket.data = FALSE,
                             !.socket.events = FALSE,
                             !.socket.piped = FALSE,
                             !.pingInterval = FALSE,
                             !.pingTimers = IF d.pingInterval THEN @ - 1 ELSE @]

\* _disconnect that leaves _state as it finds it.
_disconnect_keepsState(d) ==
    IF d.isDisconnected THEN d
    ELSE LET d1 == [d EXCEPT !.isConnecting = FALSE,
                             !.isConnected = FALSE,
                             !.decipherStream.listening = FALSE]
         IN  IF ~d.socket.exists
             THEN [d1 EXCEPT !.log.threw = TRUE]
             ELSE [d1 EXCEPT !.socket.data = FALSE,
                             !.socket.events = FALSE,
                             !.socket.piped = FALSE,
                             !.socket.destroyed = TRUE,
                             !.pingInterval = FALSE,
                             !.pingTimers = IF d.pingInterval THEN @ - 1 ELSE @]

_disconnect(d) ==
    IF d.isDisconnected THEN d
    ELSE LET d1 == [d EXCEPT !.isConnecting = FALSE,
                             !.isConnected = FALSE,
                             !.state = "nonce",
                             !.decipherStream.listening = FALSE]
         IN  IF ~d.socket.exists
             THEN [d1 EXCEPT !.log.threw = TRUE]
             ELSE [d1 EXCEPT !.socket.data = FALSE,
                             !.socket.events = FALSE,
                             !.socket.piped = FALSE,
                             !.socket.destroyed = TRUE,
                             !.pingInterval = FALSE,
                             !.pingTimers = IF d.pingInterval THEN @ - 1 ELSE @]

disconnect(d) ==
    LET d1 == _disconnect(d)
    IN  IF d1.log.threw THEN d1 ELSE [d1 EXCEPT !.isDisconnected = TRUE]

\* _reconnect without its isDisconnected guard.
_reconnect_unguarded(d) ==
    LET d1 == _disconnect(d)
    IN  [d1 EXCEPT !.timerQueue = Append(@, "reconnect"),
                   !.log.scheduled = @ + 1]

_reconnect(d) ==
    IF d.isDisconnected THEN d
    ELSE LET d1 == _disconnect(d)
         IN  [d1 EXCEPT !.timerQueue = Append(@, "reconnect"),
                        !.log.scheduled = @ + 1]

\* _nextMessageID with its wrap test off by one: > for >=.
_nextMessageID_lateWrap(d) ==
    [d EXCEPT !.messageID = IF @ + 1 > COUNTER_MAX THEN 0 ELSE @ + 1,
              !.sent = @ + 1]

\* _nextMessageID that wraps to 1.
_nextMessageID_wrapsToOne(d) ==
    [d EXCEPT !.messageID = IF @ + 1 >= COUNTER_MAX THEN 1 ELSE @ + 1,
              !.sent = @ + 1]

_nextMessageID(d) ==
    [d EXCEPT !.messageID = IF @ + 1 >= COUNTER_MAX THEN 0 ELSE @ + 1,
              !.sent = @ + 1]

\* n calls of _nextMessageID in a row.
RECURSIVE NextIds(_, _)
NextIds(d, n) ==
    IF n = 0 THEN d
    ELSE IF n = 1 THEN _nextMessageID(d)
    ELSE NextIds(NextIds(d, n \div 2), n - (n \div 2))

\* _state, _isConnected and _isDisconnected as a statement finds them.
FlagsOf(d) ==
    [state |-> d.state, isConnected |-> d.isConnected,
     isDisconnected |-> d.isDisconnected]

\* _writeData without its test of socket.destroyed.
_writeData_unguarded(d, packet) ==
    [d EXCEPT !.cipherStream.written = @ + 1,
              !.throttle = Append(@, packet),
              !.log.frames = Append(@, packet),
              !.log.wroteIn = Append(@, FlagsOf(d))]

\* A socket that is undefined makes the test throw inside the try block.
_writeData(d, packet) ==
    IF ~d.socket.exists \/ d.socket.destroyed THEN d
    ELSE [d EXCEPT !.cipherStream.written = @ + 1,
                   !.throttle = Append(@, packet),
                   !.log.frames = Append(@, packet),
                   !.log.wroteIn = Append(@, FlagsOf(d))]

_sendHello(d) ==
    LET d1 == _nextMessageID(d)
    IN  _writeData(d1, [kind |-> "hello", code |-> "POST",
                        mid |-> d1.messageID, token |-> 0])

\* case 'nonce' of _onReadData.
ReadNonce(d) ==
    [d EXCEPT !.state = "set-session-key",
              !.log.rawWrites = IF d.socket.destroyed THEN 0 ELSE 1,
              !.log.branch = "nonce"]

\* The tail of case 'set-session-key', once the HMAC check has passed.
InstallSession(d, c) ==
    LET d1 == [d EXCEPT
                 !.messageID = U16BE(c.tail),
                 !.sent = 0,
                 !.decipherStream =
                     [exists |-> TRUE, listening |-> TRUE, wedged |-> FALSE],
                 !.cipherStream = [exists |-> TRUE, written |-> 0,
                                   tail |-> c.tail, attached |-> TRUE],
                 !.throttle = <<>>,
                 !.socket.piped = TRUE,
                 !.socket.data = FALSE]
        d2 == _sendHello(d1)
    IN  [d2 EXCEPT !.helloTimeout = TRUE,
                   !.state = "next",
                   !.pingTimers = @ + 1,
                   !.pingInterval = TRUE,
                   !.isConnected = TRUE]

\* case 'set-session-key' of _onReadData: decrypt() and decryptPublic() throw
\* on bytes that are no RSA ciphertext, and the HMAC check throws.
ReadSessionKey(d, c) ==
    LET d0 == [d EXCEPT !.log.branch = "set-session-key"]
        d1 == [d0 EXCEPT !.log.rsaOk = TRUE,
                         !.log.hmac = HmacOrder(c.hash, c.got)]
    IN  IF ~c.rsaOk THEN [d0 EXCEPT !.log.threw = TRUE]
        ELSE IF compare(c.hash, c.got) = -1 THEN [d1 EXCEPT !.log.threw = TRUE]
        ELSE InstallSession(d1, c)

\* The switch of _onReadData, after its sleep.
_onReadData(d, c) ==
    CASE d.state = "nonce" -> ReadNonce(d)
      [] d.state = "set-session-key" -> ReadSessionKey(d, c)
      [] OTHER -> [d EXCEPT !.log.branch = "next"]

_pingServer(d) ==
    IF ~d.isConnected THEN d
    ELSE LET d1 == _nextMessageID(d)
         IN  _writeData(d1, [kind |-> "ping", code |-> "0",
                             mid |-> d1.messageID, token |-> 0])

_sendEvent(d) ==
    IF ~d.isConnected THEN d
    ELSE LET d1 == _nextMessageID(d)
         IN  _writeData(d1, [kind |-> "event", code |-> "POST",
                             mid |-> d1.messageID, token |-> 0])

sendWebhook(d) == _sendEvent(d)

\* The outbound throttle as it would be if it gave each packet a timer of its
\* own: the newest packet may overtake.
NetworkThrottleStream_unordered(d) ==
    LET n == Len(d.throttle)
    IN  IF ~d.cipherStream.attached \/ d.socket.destroyed
        THEN [d EXCEPT !.throttle = SubSeq(@, 1, n - 1)]
        ELSE [d EXCEPT !.throttle = SubSeq(@, 1, n - 1),
                       !.wire = Append(@, d.throttle[n])]

\* The timer of the outbound NetworkThrottleStream fires: it pushes the packet
\* it holds, the framing stream prefixes its length and writes it to the socket
\* the pipeline was built on, and the stream takes the next packet.
NetworkThrottleStream_transform(d) ==
    IF ~d.cipherStream.attached \/ d.socket.destroyed
    THEN [d EXCEPT !.throttle = Tail(@)]
    ELSE [d EXCEPT !.throttle = Tail(@), !.wire = Append(@, Head(d.throttle))]

_sendDescribe(d, serverPacket) ==
    LET d1 == _nextMessageID(d)
    IN  _writeData(d1, [kind |-> "describe", code |-> "2.05",
                        mid |-> d1.messageID, token |-> serverPacket.token])

_sendFunctionResult(d, serverPacket) ==
    IF ~d.isConnected THEN d
    ELSE LET d1 == _nextMessageID(d)
         IN  _writeData(d1, [kind |-> "function", code |-> "2.04",
                             mid |-> d1.messageID,
                             token |-> serverPacket.token])

_sendVariable(d, serverPacket) ==
    IF ~d.isConnected THEN d
    ELSE LET d1 == _nextMessageID(d)
         IN  _writeData(d1, [kind |-> "variable", code |-> "2.05",
                             mid |-> d1.messageID,
                             token |-> serverPacket.token])

\* The handler and the 10 s timer _waitForResponse('ACK') registers; the id it
\* waits for is `messageID || this._messageID`, and no caller passes one.
_waitForResponse(d) ==
    [d EXCEPT !.ackWaits = Append(@, [mid |-> d.messageID, timer |-> TRUE])]

_subscribe(d) ==
    IF ~d.isConnected THEN d
    ELSE LET d1 == _nextMessageID(d)
             d2 == _writeData(d1, [kind |-> "subscribe", code |-> "GET",
                                   mid |-> d1.messageID, token |-> 0])
         IN  _waitForResponse(d2)

\* The 10 s timer of the i-th _waitForResponse fires and rejects; _subscribe
\* catches the rejection and logs it. The handler stays registered.
\* This variant lets the rejection escape.
_waitForResponse_uncaught(d, i) ==
    [d EXCEPT !.ackWaits[i].timer = FALSE, !.log.threw = TRUE]

_waitForResponse_timeout(d, i) ==
    [d EXCEPT !.ackWaits[i].timer = FALSE]

\* emit('ACK', packet) that completes every wait, whatever its id.
emitACK_any(d, mid) ==
    [d EXCEPT !.ackWaits = <<>>]

\* emit('ACK', packet): every handler whose id matches clears its timer and
\* removes itself.
emitACK(d, mid) ==
    [d EXCEPT !.ackWaits = SelectSeq(@, LAMBDA w : w.mid # mid)]

\* _onNewCoapMessage that leaves the hello timer armed.
_onNewCoapMessage_keepsTimer(d, m) ==
    CASE m.kind = "ack" -> [emitACK(d, m.mid) EXCEPT !.log.branch = "ack"]
      [] m.kind = "d" ->
           [_subscribe(_sendDescribe(d, m)) EXCEPT !.log.branch = "d"]
      [] m.kind = "f" -> [_sendFunctionResult(d, m) EXCEPT !.log.branch = "f"]
      [] m.kind = "h" -> [d EXCEPT !.log.branch = "h"]
      [] m.kind = "e" -> [d EXCEPT !.log.branch = "e"]
      [] m.kind = "v" -> [_sendVariable(d, m) EXCEPT !.log.branch = "v"]
      [] OTHER -> [d EXCEPT !.log.branch = "unsupported"]

\* _onNewCoapMessage that answers a path it does not know like a variable.
_onNewCoapMessage_answersAll(d, m) ==
    CASE m.kind = "ack" -> [emitACK(d, m.mid) EXCEPT !.log.branch = "ack"]
      [] m.kind = "d" ->
           [_subscribe(_sendDescribe(d, m)) EXCEPT !.log.branch = "d"]
      [] m.kind = "f" -> [_sendFunctionResult(d, m) EXCEPT !.log.branch = "f"]
      [] m.kind = "h" ->
           [d EXCEPT !.helloTimeout = FALSE, !.log.branch = "h"]
      [] m.kind = "e" -> [d EXCEPT !.log.branch = "e"]
      [] m.kind = "v" -> [_sendVariable(d, m) EXCEPT !.log.branch = "v"]
      [] OTHER -> [_sendVariable(d, m) EXCEPT !.log.branch = "unsupported"]

\* _onNewCoapMessage that answers a function call like a variable request.
_onNewCoapMessage_sameCode(d, m) ==
    CASE m.kind = "ack" -> [emitACK(d, m.mid) EXCEPT !.log.branch = "ack"]
      [] m.kind = "d" ->
           [_subscribe(_sendDescribe(d, m)) EXCEPT !.log.branch = "d"]
      [] m.kind = "f" -> [_sendVariable(d, m) EXCEPT !.log.branch = "f"]
      [] m.kind = "h" ->
           [d EXCEPT !.helloTimeout = FALSE, !.log.branch = "h"]
      [] m.kind = "e" -> [d EXCEPT !.log.branch = "e"]
      [] m.kind = "v" -> [_sendVariable(d, m) EXCEPT !.log.branch = "v"]
      [] OTHER -> [d EXCEPT !.log.branch = "unsupported"]

\* The ACK event for an empty ACK, then the switch on the first Uri-Path
\* segment; the listeners of the "e" and "E" events do nothing.
_onNewCoapMessage(d, m) ==
    CASE m.kind = "ack" -> [emitACK(d, m.mid) EXCEPT !.log.branch = "ack"]
      [] m.kind = "d" ->
           [_subscribe(_sendDescribe(d, m)) EXCEPT !.log.branch = "d"]
      [] m.kind = "f" -> [_sendFunctionResult(d, m) EXCEPT !.log.branch = "f"]
      [] m.kind = "h" ->
           [d EXCEPT !.helloTimeout = FALSE, !.log.branch = "h"]
      [] m.kind = "e" -> [d EXCEPT !.log.branch = "e"]
      [] m.kind = "v" -> [_sendVariable(d, m) EXCEPT !.log.branch = "v"]
      [] OTHER -> [d EXCEPT !.log.branch = "unsupported"]

\* CryptoStream._transform of the decrypt stream: a frame that does not decrypt
\* throws before callback() is called, so the stream takes no further frame.
CryptoStream_transform(d, m) ==
    IF m.kind = "garbled"
    THEN [d EXCEPT !.decipherStream.wedged = TRUE, !.log.threw = TRUE,
                   !.log.branch = "garbled"]
    ELSE _onNewCoapMessage(d, m)

\* ----------------------------------------------------------------- actions
\* ---- ChunkingStream ----

\* Bytes of the framed messages; the length prefix adds the bytes 0..MaxMsgLen.
ByteValues == {1, 2}

\* The messages written to the outgoing stream.
Messages == UNION {[1..n -> ByteValues] : n \in 0..MaxMsgLen}

\* JavaScript's NaN, apart from every number the streams compute.
NaN == 0 - 65536

\* this._incomingBuffer = null.
NullBuffer == <<NaN>>

\* +, -, <, > and === of JavaScript on numbers that may be NaN.
Plus(a, b) == IF a = NaN \/ b = NaN THEN NaN ELSE a + b

Minus(a, b) == IF a = NaN \/ b = NaN THEN NaN ELSE a - b

Less(a, b) == a # NaN /\ b # NaN /\ a < b

Greater(a, b) == a # NaN /\ b # NaN /\ a > b

StrictEq(a, b) == a # NaN /\ b # NaN /\ a = b

\* new Buffer(n): n zero bytes; no bytes when n is NaN and the call returns.
NewBuffer(n) == IF n = NaN THEN <<>> ELSE [i \in 1..n |-> 0]

\* source.copy(target, targetStart, sourceStart, sourceEnd), indices from 0.
BufferCopy(source, target, targetStart, sourceStart, sourceEnd) ==
    [i \in 1..Len(target) |->
        IF /\ i > targetStart
           /\ i <= targetStart + (sourceEnd - sourceStart)
        THEN source[sourceStart + (i - targetStart)]
        ELSE target[i]]

\* A pair of streams just constructed: nothing written, nothing read.
NewCodec ==
    [written |-> <<>>, bytes |-> <<>>, expectedLength |-> NaN,
     incomingIndex |-> -1, incomingBuffer |-> NullBuffer,
     stalled |-> FALSE, pushed |-> <<>>, chunks |-> <<>>]

messageLengthBytes(message) ==
    <<(Len(message) \div 256) % 256, Len(message) % 256>>

\* _transform of the outgoing stream: the length, then the message.
ChunkingStream_outgoing(c, message) ==
    [c EXCEPT !.written = Append(@, message),
              !.bytes = @ \o messageLengthBytes(message) \o message]

\* this.push(buffer) of a stream of bytes: the stream queues a buffer that
\* has bytes and emits it to its consumer; a buffer of no bytes is not queued
\* and nothing is emitted for it.
push(c, buffer) ==
    IF buffer = <<>> THEN c ELSE [c EXCEPT !.pushed = Append(@, buffer)]

\* process(chunk, callback) of the incoming stream, with the calls it makes
\* to itself for the remainder. throws: new Buffer(NaN) throws in this build;
\* the callback is then never called and the stream takes no further chunk.
RECURSIVE process(_, _, _)
process(c, chunk, throws) ==
    LET isNewMessage == c.incomingIndex = -1
        header == IF Len(chunk) >= 2 THEN chunk[1] * 256 + chunk[2] ELSE NaN
    IN  IF isNewMessage /\ header = NaN /\ throws
        THEN [c EXCEPT !.expectedLength = NaN, !.stalled = TRUE]
        ELSE
        LET c1 == IF isNewMessage
                  THEN [c EXCEPT !.expectedLength = header,
                                 !.incomingBuffer = NewBuffer(header),
                                 !.incomingIndex = 0]
                  ELSE c
            startIndex == IF isNewMessage THEN 2 ELSE 0
            bytesLeft == Minus(c1.expectedLength, c1.incomingIndex)
            endSum == Plus(startIndex, bytesLeft)
            endIndex == IF Greater(endSum, Len(chunk)) THEN Len(chunk)
                        ELSE endSum
            copies == /\ Less(startIndex, endIndex)
                      /\ c1.incomingBuffer # NullBuffer
        IN  IF copies /\ c1.incomingIndex >= Len(c1.incomingBuffer)
            THEN [c1 EXCEPT !.stalled = TRUE]
            ELSE
            LET c2 == [c1 EXCEPT
                         !.incomingBuffer =
                             IF copies
                             THEN BufferCopy(chunk, @, c1.incomingIndex,
                                             startIndex, endIndex)
                             ELSE @,
                         !.incomingIndex =
                             Plus(@, Minus(endIndex, startIndex))]
                remainder == IF Less(endIndex, Len(chunk))
                             THEN SubSeq(chunk, endIndex + 1, Len(chunk))
                             ELSE <<>>
            IN  IF /\ StrictEq(c2.incomingIndex, c2.expectedLength)
                   /\ c2.incomingBuffer # NullBuffer
                THEN LET c3 == [push(c2, c2.incomingBuffer) EXCEPT
                                  !.incomingBuffer = NullBuffer,
                                  !.incomingIndex = -1,
                                  !.expectedLength = -1]
                     IN  IF remainder = <<>> THEN c3
                         ELSE process(c3, remainder, throws)
                ELSE c2

\* _transform of the incoming stream for the next n bytes of the connection.
ChunkingStream_incoming(c, n, throws) ==
    process([c EXCEPT !.bytes = SubSeq(@, n + 1, Len(@)),
                      !.chunks = Append(@, n)],
            SubSeq(c.bytes, 1, n), throws)

\* ---- CryptoStream ----

\* AES-128-CBC in small: a block is BlockSize bytes, a byte is two bits.
BlockSize == 2

CipherBytes == 0..3

Blocks == [1..BlockSize -> CipherBytes]

\* The keys and the bytes of the messages the streams are tried with.
Keys == [1..BlockSize -> {1, 2}]

PlainBytes == {0, 3}

Xor(a, b) == ((a + b) % 2) + 2 * (((a \div 2) + (b \div 2)) % 2)

XorBlock(x, y) == [i \in 1..BlockSize |-> Xor(x[i], y[i])]

\* The block cipher under key k, and its inverse: the key is mixed in and
\* the block goes through a fixed permutation of the 16 blocks.
BlockNumber(x) == x[1] * 4 + x[2]

NumberBlock(n) == <<n \div 4, n % 4>>

EncryptBlock(k, x) == NumberBlock((5 * BlockNumber(XorBlock(x, k)) + 3) % 16)

DecryptBlock(k, y) ==
    XorBlock(NumberBlock((13 * (BlockNumber(y) + 13)) % 16), k)

\* The messages written to the encrypting stream.
PlainTexts == UNION {[1..n -> PlainBytes] : n \in 0..(MaxBlocks * BlockSize)}

\* PKCS#7: n bytes of value n fill the last block, a whole block if need be.
Pad(bytes) ==
    LET n == BlockSize - (Len(bytes) % BlockSize)
    IN  bytes \o [i \in 1..n |-> n]

PaddingOk(bytes) ==
    /\ bytes # <<>>
    /\ LET n == bytes[Len(bytes)]
       IN  /\ n \in 1..BlockSize
           /\ n <= Len(bytes)
           /\ \A i \in (Len(bytes) - n + 1)..Len(bytes) : bytes[i] = n

Unpad(bytes) == SubSeq(bytes, 1, Len(bytes) - bytes[Len(bytes)])

\* createCipheriv('aes-128-cbc', key, iv): update(chunk) then final(), on
\* the padded bytes.
RECURSIVE CbcEncrypt(_, _, _)
CbcEncrypt(k, iv, bytes) ==
    IF bytes = <<>> THEN <<>>
    ELSE LET c == EncryptBlock(k, XorBlock(SubSeq(bytes, 1, BlockSize), iv))
         IN  c \o CbcEncrypt(k, c, SubSeq(bytes, BlockSize + 1, Len(bytes)))

\* createDecipheriv('aes-128-cbc', key, iv): the bytes before the padding
\* is checked and removed.
RECURSIVE CbcDecrypt(_, _, _)
CbcDecrypt(k, iv, bytes) ==
    IF bytes = <<>> THEN <<>>
    ELSE LET c == SubSeq(bytes, 1, BlockSize)
         IN  XorBlock(DecryptBlock(k, c), iv)
                \o CbcDecrypt(k, c, SubSeq(bytes, BlockSize + 1, Len(bytes)))

\* ivContainer.copy(this._iv, 0, 0, 16).
FirstBlock(bytes) == SubSeq(bytes, 1, BlockSize)

LastBlock(bytes) == SubSeq(bytes, Len(bytes) - BlockSize + 1, Len(bytes))

\* No pair of streams yet.
NoChain ==
    [made |-> FALSE, key |-> <<0, 0>>, iv0 |-> <<0, 0>>,
     encryptIv |-> <<0, 0>>, decryptIv |-> <<0, 0>>,
     written |-> <<>>, ciphered |-> <<>>, pending |-> <<>>, pushed |-> <<>>,
     encryptStalled |-> FALSE, decryptStalled |-> FALSE]

\* new CryptoStream({ iv, key, streamType }) for both directions.
NewChain(key, iv) ==
    [NoChain EXCEPT !.made = TRUE, !.key = key, !.iv0 = iv,
                    !.encryptIv = iv, !.decryptIv = iv]

\* The decrypting stream that takes the next IV from the end of the chunk.
CryptoStream_decrypt_lastBlock(ch) ==
    LET chunk == Head(ch.pending)
        padded == CbcDecrypt(ch.key, ch.decryptIv, chunk)
    IN  IF chunk = <<>> \/ ~PaddingOk(padded)
        THEN [ch EXCEPT !.pending = Tail(@), !.decryptStalled = TRUE]
        ELSE [ch EXCEPT !.pending = Tail(@),
                        !.decryptIv = LastBlock(chunk),
                        !.pushed = Append(@, Unpad(padded))]

\* The encrypting stream that keeps its IV in the buffer both streams were
\* constructed with.
CryptoStream_encrypt_sharedIv(ch, chunk) ==
    IF chunk = <<>>
    THEN [ch EXCEPT !.written = Append(@, chunk), !.encryptStalled = TRUE]
    ELSE LET output == CbcEncrypt(ch.key, ch.encryptIv, Pad(chunk))
         IN  [ch EXCEPT !.written = Append(@, chunk),
                        !.encryptIv = FirstBlock(output),
                        !.decryptIv = FirstBlock(output),
                        !.ciphered = Append(@, output),
                        !.pending = Append(@, output)]

\* The encrypting stream that takes the next IV from the end of its output.
CryptoStream_encrypt_lastBlock(ch, chunk) ==
    IF chunk = <<>>
    THEN [ch EXCEPT !.written = Append(@, chunk), !.encryptStalled = TRUE]
    ELSE LET output == CbcEncrypt(ch.key, ch.encryptIv, Pad(chunk))
         IN  [ch EXCEPT !.written = Append(@, chunk),
                        !.encryptIv = LastBlock(output),
                        !.ciphered = Append(@, output),
                        !.pending = Append(@, output)]

\* _transform of the encrypting stream. An empty chunk throws, and so the
\* callback is never called: the stream takes no further chunk.
CryptoStream_encrypt(ch, chunk) ==
    IF chunk = <<>>
    THEN [ch EXCEPT !.written = Append(@, chunk), !.encryptStalled = TRUE]
    ELSE LET output == CbcEncrypt(ch.key, ch.encryptIv, Pad(chunk))
         IN  [ch EXCEPT !.written = Append(@, chunk),
                        !.encryptIv = FirstBlock(output),
                        !.ciphered = Append(@, output),
                        !.pending = Append(@, output)]

\* _transform of the decrypting stream for the oldest ciphertext. Padding
\* that does not check makes final() throw, and the stream takes no further
\* chunk.
CryptoStream_decrypt(ch) ==
    LET chunk == Head(ch.pending)
        padded == CbcDecrypt(ch.key, ch.decryptIv, chunk)
    IN  IF chunk = <<>> \/ ~PaddingOk(padded)
        THEN [ch EXCEPT !.pending = Tail(@), !.decryptStalled = TRUE]
        ELSE [ch EXCEPT !.pending = Tail(@),
                        !.decryptIv = FirstBlock(chunk),
                        !.pushed = Append(@, Unpad(padded))]

\* What one menu operation did: the amount it parsed, whether it threw, and
\* the sessions it removed from the fleet, each as disconnect() left it.
NoFleetLog == [op |-> "new", amount |-> 0, threw |-> FALSE, stopped |-> <<>>]

\* An App that holds no device and knows no id.
NoFleet ==
    /\ devices = <<>>
    /\ existingDeviceIDs = <<>>
    /\ keyFiles = {}
    /\ built = 0
    /\ fleetLast = NoFleetLog

Commit(op, d) ==
    /\ state' = d.state
    /\ isConnecting' = d.isConnecting
    /\ isConnected' = d.isConnected
    /\ isDisconnected' = d.isDisconnected
    /\ messageID' = d.messageID
    /\ socket' = d.socket
    /\ orphans' = d.orphans
    /\ timerQueue' = d.timerQueue
    /\ pingInterval' = d.pingInterval
    /\ pingTimers' = d.pingTimers
    /\ helloTimeout' = d.helloTimeout
    /\ cipherStream' = d.cipherStream
    /\ decipherStream' = d.decipherStream
    /\ ackWaits' = d.ackWaits
    /\ sent' = d.sent
    /\ throttle' = d.throttle
    /\ wire' = d.wire
    /\ last' = [op |-> op, log |-> d.log]
    /\ UNCHANGED <<codec, chain, fleetVars>>

Init ==
    /\ state = "nonce"
    /\ isConnecting = FALSE
    /\ isConnected = FALSE
    /\ isDisconnected = FALSE
    /\ messageID = 0
    /\ socket = NoSocket
    /\ orphans = 0
    /\ timerQueue = <<>>
    /\ pingInterval = FALSE
    /\ pingTimers = 0
    /\ helloTimeout = FALSE
    /\ cipherStream = [exists |-> FALSE, written |-> 0, tail |-> <<0, 0>>,
                       attached |-> FALSE]
    /\ decipherStream = [exists |-> FALSE, listening |-> FALSE, wedged |-> FALSE]
    /\ ackWaits = <<>>
    /\ sent = 0
    /\ throttle = <<>>
    /\ wire = <<>>
    /\ last = [op |-> "new", log |-> NoLog]
    /\ codec = NewCodec
    /\ chain = NoChain
    /\ NoFleet

\* The fields hold what the record holds.
Holds(d) ==
    /\ state = d.state
    /\ isConnecting = d.isConnecting
    /\ isConnected = d.isConnected
    /\ isDisconnected = d.isDisconnected
    /\ messageID = d.messageID
    /\ socket = d.socket
    /\ orphans = d.orphans
    /\ timerQueue = d.timerQueue
    /\ pingInterval = d.pingInterval
    /\ pingTimers = d.pingTimers
    /\ helloTimeout = d.helloTimeout
    /\ cipherStream = d.cipherStream
    /\ decipherStream = d.decipherStream
    /\ ackWaits = d.ackWaits
    /\ sent = d.sent
    /\ throttle = d.throttle
    /\ wire = d.wire

\* The device after construction, as a record.
Fresh ==
    [state |-> "nonce", isConnecting |-> FALSE, isConnected |-> FALSE,
     isDisconnected |-> FALSE, messageID |-> 0, socket |-> NoSocket,
     orphans |-> 0, timerQueue |-> <<>>, pingInterval |-> FALSE,
     pingTimers |-> 0, helloTimeout |-> FALSE,
     cipherStream |-> [exists |-> FALSE, written |-> 0, tail |-> <<0, 0>>,
                       attached |-> FALSE],
     decipherStream |-> [exists |-> FALSE, listening |-> FALSE,
                         wedged |-> FALSE],
     ackWaits |-> <<>>, sent |-> 0, throttle |-> <<>>, wire |-> <<>>,
     log |-> NoLog]

\* A session whose handshake has just completed: connect(), the nonce read,
\* and a valid session key read.
Handshaken(tail) ==
    InstallSession(ReadNonce(connect(Fresh)),
                   [rsaOk |-> TRUE, hash |-> 0, got |-> 0, tail |-> tail])

IdInit ==
    \E tail \in KeyTails :
       /\ Holds(Handshaken(tail))
       /\ last = [op |-> "data", log |-> Handshaken(tail).log]
       /\ codec = NewCodec
       /\ chain = NoChain
       /\ NoFleet

\* The session takes the next message id.
CountOne ==
    /\ sent < MaxSent
    /\ Commit("nextId", NextIds(Dev, 1))

\* The session takes BurstSize message ids, one after the other.
CountBurst ==
    /\ sent + BurstSize <= COUNTER_MAX + 1
    /\ Commit("nextIds", NextIds(Dev, BurstSize))

\* A whole message is written to the outgoing ChunkingStream.
WriteMessage ==
    /\ Len(codec.written) < MaxMsgs
    /\ \E message \in Messages :
          codec' = ChunkingStream_outgoing(codec, message)
    /\ last' = [op |-> "frame", log |-> NoLog]
    /\ UNCHANGED <<progVars, chain, fleetVars>>

\* The connection delivers its next n bytes to the incoming ChunkingStream.
DeliverChunk ==
    /\ ~codec.stalled
    /\ \E n \in 1..Len(codec.bytes), throws \in BOOLEAN :
          codec' = ChunkingStream_incoming(codec, n, throws)
    /\ last' = [op |-> "chunk", log |-> NoLog]
    /\ UNCHANGED <<progVars, chain, fleetVars>>

\* The two CryptoStreams of a session are made from its key and IV.
MakeChain ==
    /\ ~chain.made
    /\ \E key \in Keys, iv \in Blocks : chain' = NewChain(key, iv)
    /\ last' = [op |-> "chain", log |-> NoLog]
    /\ UNCHANGED <<progVars, codec, fleetVars>>

\* A message is written to the encrypting stream.
EncryptMessage ==
    /\ chain.made /\ ~chain.encryptStalled
    /\ Len(chain.written) < MaxMsgs
    /\ \E chunk \in PlainTexts : chain' = CryptoStream_encrypt(chain, chunk)
    /\ last' = [op |-> "encrypt", log |-> NoLog]
    /\ UNCHANGED <<progVars, codec, fleetVars>>

\* The decrypting stream takes the oldest ciphertext.
DecryptMessage ==
    /\ chain.made /\ ~chain.decryptStalled
    /\ chain.pending # <<>>
    /\ chain' = CryptoStream_decrypt(chain)
    /\ last' = [op |-> "decrypt", log |-> NoLog]
    /\ UNCHANGED <<progVars, codec, fleetVars>>

\* The orchestrator calls connect().
Connect ==
    /\ isConnecting \/ Count(timerQueue, "reconnect") < MaxTimers
    /\ Commit("connect", connect(Dev))

\* The orchestrator calls disconnect().
Disconnect ==
    /\ TRUE
    /\ Commit("disconnect",
              [disconnect(Dev) EXCEPT
                 !.log.branch = IF last.op = "disconnect" THEN "again"
                                ELSE "first"])

\* The socket emits 'data' to _onReadData, which goes to sleep for 100 ms.
DataArrives ==
    /\ socket.exists /\ ~socket.destroyed /\ socket.data
    /\ Count(timerQueue, "sleep") < MaxInFlight
    /\ Commit("receive", [Dev EXCEPT !.timerQueue = Append(@, "sleep")])

\* The oldest sleeping _onReadData wakes up and runs its switch; the bytes of
\* its chunk are read only now, in the 'set-session-key' branch.
ProcessData ==
    \E i \in 1..Len(timerQueue) :
       /\ timerQueue[i] = "sleep"
       /\ \A j \in 1..(i - 1) : timerQueue[j] # "sleep"
       /\ \E c \in (IF state = "set-session-key" THEN Chunks ELSE {NoChunk}) :
             Commit("data",
                    _onReadData([Dev EXCEPT !.timerQueue = Without(@, i)], c))

\* The socket emits 'error', 'close' or 'timeout' to its listeners; the runtime
\* has destroyed the socket before it emits 'error' or 'close'.  'timeout' comes
\* after 31 s without traffic, when every 100 ms sleep and every 15 s timer that
\* was pending when the traffic stopped has run.
SocketEvent(kind) ==
    /\ socket.exists /\ socket.events
    /\ CASE kind = "error" -> ~socket.destroyed
         [] kind = "close" -> ~socket.closed
         [] OTHER -> ~socket.destroyed /\ timerQueue = <<>>
    /\ LET d0 == IF kind = "timeout" THEN Dev
                 ELSE [Dev EXCEPT !.socket.destroyed = TRUE,
                                  !.socket.closed = (kind = "close")]
       IN  Commit(kind, _reconnect(d0))

SocketError == SocketEvent("error")

SocketClose == SocketEvent("close")

SocketTimeout == SocketEvent("timeout")

\* The oldest reconnect timer fires, 15 s after the teardown that armed it:
\* every _onReadData that went to sleep before that teardown has run by then.
ReconnectTimerFire ==
    /\ timerQueue # <<>>
    /\ Head(timerQueue) = "reconnect"
    /\ Commit("reconnectTimer",
              connect([Dev EXCEPT !.timerQueue = Tail(@)]))

\* A frame of one of `kinds` comes out of the inbound pipeline of the current
\* socket and reaches the decrypt stream.
CoapArrives(kinds) ==
    /\ socket.exists /\ ~socket.destroyed /\ socket.piped
    /\ decipherStream.listening /\ ~decipherStream.wedged
    /\ \E k \in kinds :
       \E mid \in (IF k = "ack"
                    THEN {ackWaits[i].mid : i \in 1..Len(ackWaits)}
                             \cup {(messageID + 1) % COUNTER_MAX}
                    ELSE {0}) :
       \E token \in (IF k \in {"d", "f", "v"} THEN Tokens ELSE {0}) :
          /\ k = "d" => (sent + 2 <= MaxSent /\ Len(ackWaits) < MaxWaits)
          /\ k \in {"f", "v"} => sent < MaxSent
          /\ LET packet == [kind |-> k, mid |-> mid, token |-> token]
             IN  Commit("coap",
                        CryptoStream_transform(
                            [Dev EXCEPT !.log.packet = packet], packet))

\* The server's Hello, or a frame that does not decrypt.
HelloOrGarbledArrives == CoapArrives({"h", "garbled"})

\* A Describe request, or an empty ACK.
RequestOrAckArrives == CoapArrives({"d", "ack"})

\* A function call or a variable request.
FunctionOrVariableArrives == CoapArrives({"f", "v"})

\* An event, or a request for a path the device does not know.
EventOrUnknownArrives == CoapArrives({"e", "x"})

\* A tick of a setInterval(() => this._pingServer(), 10000).
PingTick ==
    /\ pingTimers > 0
    /\ isConnected => sent < MaxSent
    /\ Commit("ping", _pingServer(Dev))

\* The orchestrator calls sendWebhook().
SendWebhook ==
    /\ isConnected => sent < MaxSent
    /\ Commit("webhook", sendWebhook(Dev))

\* The outbound pipeline delivers its oldest packet.
ThrottleRelease ==
    /\ throttle # <<>>
    /\ Commit("release", NetworkThrottleStream_transform(Dev))

\* The hello timer fires: its callback throws, and nothing else happens.
HelloTimeoutFire ==
    /\ helloTimeout
    /\ Commit("helloTimeout",
              [Dev EXCEPT !.helloTimeout = FALSE, !.log.threw = TRUE])

\* The 10 s timer of the oldest armed _waitForResponse fires: reject().
AckTimeoutFire ==
    \E i \in 1..Len(ackWaits) :
       /\ ackWaits[i].timer
       /\ \A j \in 1..(i - 1) : ~ackWaits[j].timer
       /\ Commit("ackTimeout", _waitForResponse_timeout(Dev, i))

\* The connection's life: the handshake, teardown and reconnect, with the
\* inbound frames that consume no message id.
Lifecycle ==
    \/ Connect
    \/ Disconnect
    \/ DataArrives
    \/ ProcessData
    \/ SocketError
    \/ SocketClose
    \/ SocketTimeout
    \/ ReconnectTimerFire
    \/ HelloOrGarbledArrives
    \/ HelloTimeoutFire
    \/ ThrottleRelease

\* The messaging of a session on top of it.
Messaging ==
    \/ RequestOrAckArrives
    \/ PingTick
    \/ SendWebhook
    \/ AckTimeoutFire

\* The server's other requests.
Requests ==
    \/ FunctionOrVariableArrives
    \/ EventOrUnknownArrives

Next == Lifecycle \/ Messaging \/ Requests

Spec == Init /\ [][Next]_vars

ConnSpec == Init /\ [][Lifecycle]_vars

\* A session that sends: the handshake, the senders and the outbound
\* pipeline, with the teardowns by a socket error and by disconnect().
Sending ==
    \/ Connect
    \/ Disconnect
    \/ DataArrives
    \/ ProcessData
    \/ SocketError
    \/ ReconnectTimerFire
    \/ ThrottleRelease
    \/ Messaging

SendSpec == Init /\ [][Sending]_vars

\* The outbound path of a session that is never disconnected by the user.
Outbound ==
    \/ Connect
    \/ DataArrives
    \/ ProcessData
    \/ SocketError
    \/ ReconnectTimerFire
    \/ ThrottleRelease
    \/ RequestOrAckArrives
    \/ PingTick
    \/ SendWebhook

PipeSpec == Init /\ [][Outbound]_vars

\* A session the server talks to: the handshake, a socket error and the
\* reconnect, and the inbound messages with the timers they arm.
Dialogue ==
    \/ Connect
    \/ DataArrives
    \/ ProcessData
    \/ SocketError
    \/ ReconnectTimerFire
    \/ HelloOrGarbledArrives
    \/ HelloTimeoutFire
    \/ RequestOrAckArrives
    \/ AckTimeoutFire
    \/ Requests

CoapSpec == Init /\ [][Dialogue]_vars

\* Messages through a ChunkingStream pair.
Framing == WriteMessage \/ DeliverChunk

CodecSpec == Init /\ [][Framing]_vars

\* Messages through a CryptoStream pair.
Chaining == MakeChain \/ EncryptMessage \/ DecryptMessage

ChainSpec == Init /\ [][Chaining]_vars

\* The message-id counter of one long session.
Counting == CountOne \/ CountBurst

IdSpec == IdInit /\ [][Counting]_vars

\* What the event loop guarantees: a sleeping _onReadData wakes up, a reconnect
\* timer fires, and an idle socket times out.
FairSpec ==
    /\ ConnSpec
    /\ WF_vars(ProcessData)
    /\ WF_vars(ReconnectTimerFire)
    /\ WF_vars(SocketTimeout)

\* ------------------------------------------------------------- the fleet
\* The device ids there are: those the server may list and those a new
\* TCPDevice may draw.
DeviceIDs == 1..(MaxClaimed + MaxSessions)

\* Math.random() returns k / RandomGrain for a k of Randoms.
RandomGrain == MaxSessions
Randoms == 0..(RandomGrain - 1)

\* What may be typed at an amount prompt: text that is no number, or a count.
Answers == {NaN} \cup (0..MaxAmount)

Range(q) == {q[i] : i \in 1..Len(q)}

NoDuplicates(q) == \A i, j \in 1..Len(q) : i # j => q[i] # q[j]

\* The lists of claimed ids listDevices() may return: no id twice.
ServerLists ==
    {q \in UNION {[1..n -> 1..MaxClaimed] : n \in 0..MaxClaimed} :
        NoDuplicates(q)}

\* The ids CryptoManager.randomBytes(12) gives to the new devices of one
\* operation: 96 random bits, taken to differ from each other and from every
\* id that has a key file.
RandomIDs(n) ==
    {q \in [1..n -> DeviceIDs \ keyFiles] : NoDuplicates(q)}

\* The App as one record, so that an operation is a function of it.
App ==
    [devices |-> devices, existingDeviceIDs |-> existingDeviceIDs,
     keyFiles |-> keyFiles, built |-> built, log |-> NoFleetLog]

\* new TCPDevice({deviceID, ...}): the constructor writes a key file for an id
\* it drew itself.
NewTCPDevice(serial, deviceID) ==
    [serial |-> serial, deviceID |-> deviceID, session |-> Fresh]

\* The for loop of _createDevices: the device at position index takes the id
\* the list of claimed ids has at that position, or a new one, which is
\* pushed to the list.
RECURSIVE createLoop(_, _, _)
createLoop(a, amount, randomIDs) ==
    IF amount <= 0 THEN a
    ELSE LET index == Len(a.devices)
             known == Len(a.existingDeviceIDs) > index
             deviceID == IF known THEN a.existingDeviceIDs[index + 1]
                         ELSE Head(randomIDs)
             device == NewTCPDevice(a.built + 1, deviceID)
             a1 == [a EXCEPT
                      !.built = @ + 1,
                      !.keyFiles = @ \cup {deviceID},
                      !.existingDeviceIDs =
                          IF known THEN @ ELSE Append(@, deviceID),
                      !.devices = Append(@, device)]
         IN  createLoop(a1, amount - 1,
                        IF known THEN randomIDs ELSE Tail(randomIDs))

\* _createDevices: text that is no number returns at once; otherwise the loop,
\* and then connect() on every device of the fleet.
_createDevices(a, answer, randomIDs) ==
    IF answer = NaN THEN a
    ELSE LET a1 == createLoop(a, answer, randomIDs)
         IN  [a1 EXCEPT
                !.devices =
                    [i \in 1..Len(a1.devices) |->
                        [a1.devices[i] EXCEPT
                           !.session = [connect(@) EXCEPT !.log = NoLog]]],
                !.log.amount = answer]

\* _killDevices that leaves the list of claimed ids as it is.
RECURSIVE _killDevices_keepsIds(_, _, _)
_killDevices_keepsIds(a, amount, randoms) ==
    IF amount = 0 THEN a
    ELSE LET n == Len(a.devices)
             index == (Head(randoms) * n) \div RandomGrain
         IN  IF n = 0 THEN [a EXCEPT !.log.threw = TRUE]
             ELSE LET device == a.devices[index + 1]
                      a1 == [a EXCEPT
                               !.devices = Without(@, index + 1),
                               !.log.stopped =
                                   Append(@, [device EXCEPT
                                                !.session = disconnect(@)])]
                  IN  _killDevices_keepsIds(a1, amount - 1, Tail(randoms))

\* _killDevices: while (amount) takes a device at a random index out of the
\* fleet, drops its id from the list of claimed ids and disconnects it. With
\* the fleet empty devices[index] is undefined and device.getDeviceID()
\* throws. The concat() after the loop has no effect.
RECURSIVE _killDevices(_, _, _)
_killDevices(a, amount, randoms) ==
    IF amount = 0 THEN a
    ELSE LET n == Len(a.devices)
             index == (Head(randoms) * n) \div RandomGrain
         IN  IF n = 0 THEN [a EXCEPT !.log.threw = TRUE]
             ELSE LET device == a.devices[index + 1]
                      a1 == [a EXCEPT
                               !.devices = Without(@, index + 1),
                               !.existingDeviceIDs =
                                   SelectSeq(@, LAMBDA id :
                                                   id # device.deviceID),
                               !.log.stopped =
                                   Append(@, [device EXCEPT
                                                !.session = disconnect(@)])]
                  IN  _killDevices(a1, amount - 1, Tail(randoms))

\* _stopDevices: text that is no number returns at once.
_stopDevices(a, answer, randoms) ==
    IF answer = NaN THEN a
    ELSE [_killDevices(a, answer, randoms) EXCEPT !.log.amount = answer]

FleetCommit(op, a) ==
    /\ devices' = a.devices
    /\ existingDeviceIDs' = a.existingDeviceIDs
    /\ keyFiles' = a.keyFiles
    /\ built' = a.built
    /\ fleetLast' = [a.log EXCEPT !.op = op]
    /\ UNCHANGED <<progVars, last, codec, chain>>

\* The App after _setup(): no device yet, the claimed ids as the server lists
\* them, and a key file for each of them.
FleetInit ==
    /\ Holds(Fresh)
    /\ last = [op |-> "new", log |-> NoLog]
    /\ codec = NewCodec
    /\ chain = NoChain
    /\ devices = <<>>
    /\ existingDeviceIDs \in ServerLists
    /\ keyFiles = Range(existingDeviceIDs)
    /\ built = 0
    /\ fleetLast = NoFleetLog

\* Menu option 1, 'Start Virtual Device(s)'. An operation that threw has
\* ended run(), and with it the menu.
StartDevices ==
    /\ ~fleetLast.threw
    /\ \E answer \in Answers :
       \E randomIDs \in RandomIDs(IF answer = NaN THEN 0 ELSE answer) :
          /\ answer # NaN => built + answer <= MaxSessions
          /\ FleetCommit("start", _createDevices(App, answer, randomIDs))

\* Menu option 2, 'Stop Virtual Device(s)'.
StopDevices ==
    /\ ~fleetLast.threw
    /\ \E answer \in Answers :
       \E randoms \in [1..(IF answer = NaN THEN 0 ELSE answer) -> Randoms] :
          FleetCommit("stop", _stopDevices(App, answer, randoms))

Menu == StartDevices \/ StopDevices

FleetSpec == FleetInit /\ [][Menu]_vars

\* ------------------------------------------------------- sanity of the model
TypeOK ==
    /\ state \in {"nonce", "set-session-key", "next"}
    /\ pingTimers \in 0..1
    /\ orphans = 0
    /\ sent \in 0..MaxSent
    /\ messageID \in 0..(COUNTER_MAX - 1)
    /\ Len(ackWaits) <= MaxWaits
    /\ Count(timerQueue, "sleep") <= MaxInFlight
    /\ Count(timerQueue, "reconnect") <= MaxTimers

\* ---------------------------------------------------------------------------
\* The claims.

SocketOpen == socket.exists /\ ~socket.destroyed
SocketEvents == {"error", "close", "timeout"}
Teardowns == SocketEvents \cup {"disconnect"}
Reconnects(q) == Count(q, "reconnect")

\* C1: every connection of a session that was not disconnected by the user
\* starts in 'nonce'; on a connection, a chunk read in
\* state 'nonce' makes exactly one write to the raw socket and moves the
\* session to 'set-session-key'; 'next' is entered only from 'set-session-key'
\* and only by reading a chunk; and the state changes only
\* nonce -> set-session-key -> next, or back to nonce by a teardown.
C1_HandshakeOrder ==
    [][/\ (last'.log.opened /\ ~isDisconnected) => state' = "nonce"
       /\ (last'.op = "data" /\ state = "nonce" /\ SocketOpen)
            => (last'.log.rawWrites = 1 /\ state' = "set-session-key")
       /\ (state' = "next" /\ state # "next")
            => (state = "set-session-key" /\ last'.op = "data"
                /\ last'.log.rsaOk)
       /\ (state' # state)
            => \/ state = "nonce" /\ state' = "set-session-key"
                  /\ last'.op = "data"
               \/ state = "set-session-key" /\ state' = "next"
                  /\ last'.op = "data"
               \/ state' = "nonce" /\ last'.op \in Teardowns]_vars

\* C2: a session-key chunk that RSA-decrypts and whose HMAC differs from the
\* expected one, whichever of the two sorts first, leaves the session out of
\* 'next' and not connected.
C2_HmacMismatchRejected ==
    (/\ last.op = "data" /\ last.log.branch = "set-session-key"
     /\ last.log.rsaOk /\ last.log.hmac \in {-1, 1})
        => (state # "next" /\ ~isConnected /\ last.log.frames = <<>>)

CryptoFailure ==
    \/ /\ last.op = "data" /\ last.log.branch = "set-session-key"
       /\ (~last.log.rsaOk \/ last.log.hmac # 0)
    \/ last.op = "coap" /\ last.log.branch = "garbled"

\* C3: after a cryptographic failure (RSA or HMAC during the handshake, AES on
\* an inbound frame) the session is disconnected and one reconnect is
\* scheduled.
C3_CryptoFailureReconnects ==
    CryptoFailure
        => (/\ ~isConnected /\ socket.destroyed /\ ~pingInterval
            /\ state = "nonce"
            /\ (~isDisconnected => last.log.scheduled = 1))

\* C4: a session-key chunk with a valid HMAC, read in 'set-session-key' by a
\* session that was not disconnected by the user, sends exactly one Hello as the first frame of the new cipher stream, arms the
\* ping timer, and makes the session 'next' and connected.
C4_ValidKeyCompletes ==
    [][(/\ last'.op = "data" /\ state = "set-session-key" /\ ~isDisconnected
        /\ last'.log.rsaOk /\ last'.log.hmac = 0)
           => (/\ last'.log.frames = <<[kind |-> "hello", code |-> "POST",
                                         mid |-> messageID', token |-> 0]>>
               /\ cipherStream'.exists /\ cipherStream'.written = 1
               /\ pingInterval' /\ pingTimers' = 1
               /\ state' = "next"
               /\ isConnected')]_vars

\* C5: on a session that was not disconnected by the user, a socket error,
\* close or timeout leaves the socket destroyed, the ping timer cancelled and
\* the session not connected, and schedules exactly one connect(); and the
\* session eventually holds an open socket in state 'nonce' again.
C5_EventReconnects ==
    /\ [][(last'.op \in SocketEvents /\ ~isDisconnected)
             => (/\ socket'.destroyed
                 /\ ~pingInterval' /\ pingTimers' = 0
                 /\ ~isConnected'
                 /\ last'.log.scheduled = 1
                 /\ Reconnects(timerQueue') = Reconnects(timerQueue) + 1)]_vars
    /\ (last.op \in SocketEvents /\ ~isDisconnected)
          ~> ((SocketOpen /\ state = "nonce") \/ isDisconnected)

\* C6: once the user has disconnected the session, a socket error, close or
\* timeout schedules no reconnect.
C6_NoReconnectAfterDisconnect ==
    [][(last'.op \in SocketEvents /\ isDisconnected)
          => (/\ last'.log.scheduled = 0
              /\ Reconnects(timerQueue') = Reconnects(timerQueue))]_vars

\* C6 happens: a socket event was handled on a disconnected session.
C6_EventWhileDisconnected ==
    last.op \in SocketEvents /\ isDisconnected

\* C7: after disconnect() no socket is opened, whether or not a reconnect
\* timer was pending.
C7_NoSocketAfterDisconnect ==
    isDisconnected => ~last.log.opened

\* C8: once disconnect() has returned, no callback, timer or socket event makes
\* the session connected, opens a socket or arms a ping timer.
C8_DisconnectedIsTerminal ==
    [][(isDisconnected /\ last'.op # "connect")
          => (/\ isConnected' => isConnected
              /\ SocketOpen' => SocketOpen
              /\ pingInterval' => pingInterval
              /\ pingTimers' <= pingTimers)]_vars

TimersLeft ==
    \/ Reconnects(timerQueue) > 0
    \/ helloTimeout
    \/ pingTimers > 0
    \/ \E i \in 1..Len(ackWaits) : ackWaits[i].timer

\* C9: disconnect() right after disconnect() changes no flag, touches no
\* socket, creates no timer and leaves no timer pending.
C9_DisconnectIdempotent ==
    [][(last'.op = "disconnect" /\ last.op = "disconnect")
          => (UNCHANGED progVars /\ ~TimersLeft')]_vars

\* C10: after disconnect() no ACK wait is registered and no ACK timeout is
\* pending.
C10_DisconnectDropsAckWaits ==
    (last.op = "disconnect" /\ isDisconnected) => ackWaits = <<>>

\* C11: when the hello timer fires on a connected session (no Hello came from
\* the server within 3 s of the handshake), the session is disconnected and a
\* reconnect is scheduled.
C11_HelloTimeoutReconnects ==
    [][(/\ last'.op = "helloTimeout"
        /\ SocketOpen /\ isConnected /\ ~isDisconnected)
          => (/\ socket'.destroyed
              /\ ~isConnected'
              /\ last'.log.scheduled = 1)]_vars

ConnectCalls == {"connect", "reconnectTimer"}

C13_ConnectedIffReady ==
    isConnected <=> state = "next"

\* C13 happens: a handshake has completed and the session is connected.
C13_ReadyAndConnected ==
    isConnected /\ state = "next" /\ SocketOpen /\ socket.piped

\* The packets the session's encrypt stream has taken that are on their way
\* to, or were written to, the socket: oldest first.
Outgoing == wire \o throttle

\* The k-th message id after the one the session key holds.
IdAfter(k) == (U16BE(cipherStream.tail) + k) % COUNTER_MAX

\* C14: the message id starts at the big-endian u16 of bytes 32..34 of the
\* session key; a handler gives the packets it writes the ids that follow the
\* current one, one by one modulo 65536, whatever their kind; and the k-th
\* packet a session puts on its socket carries the k-th id after the initial
\* one.
C14_IdsCountUpByOne ==
    /\ [][LET f == last'.log.frames
              installed == last'.op = "data" /\ last'.log.rsaOk
                           /\ ~last'.log.threw
              base == IF installed THEN U16BE(cipherStream'.tail)
                      ELSE messageID
          IN  /\ \A i \in 1..Len(f) : f[i].mid = (base + i) % COUNTER_MAX
              /\ f # <<>> => messageID' = f[Len(f)].mid]_vars
    /\ []((cipherStream.attached /\ SocketOpen)
            => \A k \in 1..Len(wire) : wire[k].mid = IdAfter(k))

\* C14 happens: a session has put a Hello and two packets of different kinds
\* on its socket, and the id has wrapped from 65535 to 0.
C14_ThreeKindsAndWrap ==
    /\ cipherStream.attached /\ SocketOpen
    /\ Len(wire) = 3
    /\ wire[1].mid = COUNTER_MAX - 1 /\ wire[2].mid = 0 /\ wire[3].mid = 1
    /\ wire[1].kind = "hello" /\ wire[2].kind # wire[3].kind

\* C16: sendWebhook() on a connected session writes exactly one event packet
\* and consumes exactly one message id; on a session that is not connected it
\* writes nothing and changes no field.
C16_WebhookWritesOne ==
    [][last'.op = "webhook"
          => IF isConnected
             THEN /\ messageID' = (messageID + 1) % COUNTER_MAX
                  /\ last'.log.frames =
                        <<[kind |-> "event", code |-> "POST",
                           mid |-> messageID', token |-> 0]>>
                  /\ cipherStream'.written = cipherStream.written + 1
                  /\ throttle' = Append(throttle, last'.log.frames[1])
             ELSE last'.log.frames = <<>> /\ UNCHANGED progVars]_vars

\* C17: while a session's socket is open, every packet its encrypt stream
\* took is either on the socket or waiting in the throttle, in the order the
\* packets were submitted; the throttle delivers its oldest packet, whole and
\* alone, to the end of what the socket has; and two sendWebhook() packets are
\* on the socket in call order.
C17_PipelineKeepsOrder ==
    /\ []((cipherStream.attached /\ SocketOpen)
            => /\ Len(Outgoing) = cipherStream.written
               /\ \A i, j \in 1..Len(Outgoing) :
                     i < j => (Outgoing[j].mid - Outgoing[i].mid) % COUNTER_MAX
                                 = j - i)
    /\ [][(last'.op = "release" /\ cipherStream.attached /\ SocketOpen)
             => (/\ wire' = Append(wire, Head(throttle))
                 /\ throttle' = Tail(throttle))]_vars
    /\ [][(last'.op \notin {"release", "connect", "reconnectTimer"})
             => wire' = wire]_vars

\* C17 happens: two sendWebhook() packets reached the socket one after the
\* other.
C17_TwoWebhooksDelivered ==
    /\ cipherStream.attached /\ SocketOpen
    /\ \E i \in 1..(Len(wire) - 1) :
          wire[i].kind = "event" /\ wire[i + 1].kind = "event"

\* C15: the message ids of a session go up by one modulo 65536, and no later
\* packet of the session carries the id of its first packet.
C15_IdsNeverRepeat ==
    /\ sent >= 1 => messageID = IdAfter(sent)
    /\ sent >= 2 => messageID # IdAfter(1)

\* C15, as it holds: the k-th packet of a session carries the k-th id after
\* the initial one modulo 65536, so no packet among the 65535 that follow a
\* packet carries its id; the 65536th after it does.
C15_IdsDistinctWithinWindow ==
    /\ sent >= 1 => messageID = IdAfter(sent)
    /\ sent \in 2..COUNTER_MAX => messageID # IdAfter(1)
    /\ sent = COUNTER_MAX + 1 => messageID = IdAfter(1)

\* C15 happens: a session has sent 65537 packets, and the last one carries
\* the id of the first.
C15_FirstIdComesBack ==
    /\ last.op = "nextIds"
    /\ sent = COUNTER_MAX + 1
    /\ messageID = (U16BE(cipherStream.tail) + 1) % COUNTER_MAX

\* C18: once every byte of the encodings of the messages written has been
\* delivered, in chunks of any sizes, the decoder has emitted exactly the
\* messages written, in order.
C18_FramingRoundTrip ==
    codec.bytes = <<>> => codec.pushed = codec.written

\* C19: one 3-byte message is encoded and its 5 bytes are delivered one at a
\* time: nothing is emitted before the fifth byte, and after it exactly one
\* frame has been emitted, equal to the message.
C19_SplitHeaderDecodes ==
    (/\ Len(codec.written) = 1
     /\ Len(codec.written[1]) = 3
     /\ \A i \in 1..Len(codec.chunks) : codec.chunks[i] = 1)
        => codec.pushed = IF Len(codec.chunks) = 5 THEN codec.written ELSE <<>>

NextIvOf(bytes, fromEnd) == IF fromEnd THEN LastBlock(bytes) ELSE FirstBlock(bytes)

IvDiscipline(fromEnd) ==
    /\ (last'.op = "encrypt" /\ ~chain'.encryptStalled)
          => LET n == Len(chain'.ciphered)
             IN  /\ chain'.encryptIv = NextIvOf(chain'.ciphered[n], fromEnd)
                 /\ chain'.ciphered[n] =
                       CbcEncrypt(chain.key,
                                  IF n = 1 THEN chain.iv0
                                  ELSE NextIvOf(chain.ciphered[n - 1], fromEnd),
                                  Pad(chain'.written[n]))
    /\ (last'.op = "decrypt" /\ ~chain'.decryptStalled)
          => chain'.decryptIv = NextIvOf(Head(chain.pending), fromEnd)

C25_IvsIndependent ==
    [][/\ last'.op = "chain"
             => (chain'.encryptIv = chain'.iv0 /\ chain'.decryptIv = chain'.iv0)
       /\ last'.op = "encrypt"
             => (/\ chain'.decryptIv = chain.decryptIv
                 /\ chain'.key = chain.key /\ chain'.iv0 = chain.iv0
                 /\ chain'.encryptStalled => chain'.encryptIv = chain.encryptIv)
       /\ last'.op = "decrypt"
             => (/\ chain'.encryptIv = chain.encryptIv
                 /\ chain'.key = chain.key /\ chain'.iv0 = chain.iv0
                 /\ chain'.decryptStalled => chain'.decryptIv = chain.decryptIv)]_vars

\* C25 happens: the send direction has processed two frames and the receive
\* direction one, and the three IVs differ.
C25_DirectionsApart ==
    /\ Len(chain.ciphered) = 2 /\ Len(chain.pushed) = 1
    /\ chain.encryptIv # chain.decryptIv
    /\ chain.encryptIv # chain.iv0 /\ chain.decryptIv # chain.iv0

\* The bytes the outgoing stream has produced for the first n messages.
RECURSIVE EncodedLength(_, _)
EncodedLength(messages, n) ==
    IF n = 0 THEN 0
    ELSE EncodedLength(messages, n - 1) + 2 + Len(messages[n])

\* The bytes delivered so far end with the n-th message written.
DeliveredThrough(c, n) ==
    /\ n \in 0..Len(c.written)
    /\ EncodedLength(c.written, n) + Len(c.bytes)
          = EncodedLength(c.written, Len(c.written))

\* C23: when the framer awaits a header and one chunk brings k complete
\* frames, it emits those k messages, each whole, in order, within the
\* processing of that chunk.
C23_OneChunkManyFrames ==
    [][\A j, k \in 0..MaxMsgs :
          (/\ last'.op = "chunk"
           /\ ~codec.stalled /\ codec.incomingIndex = -1
           /\ k >= 1
           /\ DeliveredThrough(codec, j) /\ DeliveredThrough(codec', j + k))
             => (/\ codec'.pushed
                       = codec.pushed \o SubSeq(codec.written, j + 1, j + k)
                 /\ ~codec'.stalled /\ codec'.incomingIndex = -1)]_vars

\* C24: when the framer awaits a header and a chunk starts with the header
\* 00 00, the framer emits an empty frame for it, and is not stopped by it.
C24_EmptyFrameEmitted ==
    [][(/\ last'.op = "chunk"
        /\ ~codec.stalled /\ codec.incomingIndex = -1
        /\ codec'.chunks[Len(codec'.chunks)] >= 2
        /\ codec.bytes[1] = 0 /\ codec.bytes[2] = 0)
          => (/\ Len(codec'.pushed) > Len(codec.pushed)
              /\ codec'.pushed[Len(codec.pushed) + 1] = <<>>
              /\ ~codec'.stalled)]_vars

\* C22: once a session is installed on an open socket, no chunk the socket
\* delivered is consumed by the handshake handler: every chunk that came
\* after the session-key chunk went to the frame decoder.
C22_NoChunkLeftToHandshake ==
    [][(/\ last'.op = "data"
        /\ SocketOpen /\ socket.piped /\ state = "next")
          => last'.log.branch # "next"]_vars

\* C26: a connected session answers a request for d, f or v with a packet
\* that carries the request's token and the next message id, with code 2.05
\* for d, 2.04 for f and 2.05 for v, and hands it to the outbound pipeline.
C26_RequestsAnswered ==
    [][(/\ last'.op = "coap" /\ isConnected
        /\ last'.log.branch \in {"d", "f", "v"})
          => (/\ last'.log.frames # <<>>
              /\ LET reply == last'.log.frames[1]
                 IN  /\ reply.token = last'.log.packet.token
                     /\ reply.mid = (messageID + 1) % COUNTER_MAX
                     /\ reply.code = IF last'.log.branch = "f" THEN "2.04"
                                     ELSE "2.05"
                     /\ Len(throttle') > Len(throttle)
                     /\ throttle'[Len(throttle) + 1] = reply)]_vars

\* C26 happens: a connected session has answered a function call that came
\* with the second token.
C26_FunctionAnswered ==
    /\ last.op = "coap" /\ last.log.branch = "f" /\ last.log.packet.token = 2
    /\ isConnected /\ SocketOpen
    /\ throttle # <<>> /\ throttle[Len(throttle)].code = "2.04"

\* C27: the server's Hello clears the hello timer, writes no packet and
\* takes no message id; and once the timer is cleared it is not armed again
\* while the connection lasts, so it cannot fire for that connection.
C27_HelloClearsTimeout ==
    /\ [][(last'.op = "coap" /\ last'.log.branch = "h")
            => (/\ ~helloTimeout'
                /\ last'.log.frames = <<>>
                /\ UNCHANGED <<messageID, sent, cipherStream, throttle, wire>>)]_vars
    /\ [][(/\ ~helloTimeout /\ SocketOpen /\ socket.piped
           /\ socket'.exists /\ ~socket'.destroyed /\ socket'.piped)
            => (~helloTimeout' /\ last'.op # "helloTimeout")]_vars

\* C27 happens: the Hello has come while the hello timer was pending.
C27_HelloReceived ==
    /\ last.op = "coap" /\ last.log.branch = "h"
    /\ ~helloTimeout /\ SocketOpen /\ isConnected

\* C28: a request for a path the device does not know changes nothing: no
\* packet, no message id, the same state, socket, timers and streams.
C28_UnknownPathIgnored ==
    [][(last'.op = "coap" /\ last'.log.branch = "unsupported")
          => (/\ last'.log.frames = <<>> /\ ~last'.log.threw
              /\ UNCHANGED progVars)]_vars

\* C28 happens: a connected session has read a request for an unknown path.
C28_UnknownPathRead ==
    /\ last.op = "coap" /\ last.log.branch = "unsupported"
    /\ last.log.packet.kind = "x"
    /\ isConnected /\ SocketOpen /\ state = "next"

\* C29: a subscribe registers a wait for the id of the packet it sent; an
\* empty ACK completes the waits for its id and no other.
C29_AckCorrelation ==
    /\ [][(last'.op = "coap" /\ last'.log.branch = "d" /\ isConnected)
            => (/\ Len(last'.log.frames) = 2
                /\ last'.log.frames[2].kind = "subscribe"
                /\ ackWaits' = Append(ackWaits,
                                      [mid |-> last'.log.frames[2].mid,
                                       timer |-> TRUE]))]_vars
    /\ [][(last'.op = "coap" /\ last'.log.branch = "ack")
            => (/\ Len(ackWaits') <= Len(ackWaits)
                /\ \A i \in 1..Len(ackWaits') :
                      ackWaits'[i].mid # last'.log.packet.mid
                /\ ackWaits' = SelectSeq(ackWaits,
                                  LAMBDA w : w.mid # last'.log.packet.mid))]_vars

\* C29 happens: a wait that an ACK for another id had left pending.
C29_OtherAckLeavesWait ==
    /\ last.op = "coap" /\ last.log.branch = "ack"
    /\ ackWaits # <<>> /\ ackWaits[1].timer
    /\ ackWaits[1].mid # last.log.packet.mid

\* C30: when the 10 s timer of a wait fires, the wait is over, nothing is
\* thrown and nothing is written, and every other field of the session is
\* as it was.
C30_AckTimeoutHarmless ==
    [][last'.op = "ackTimeout"
          => (/\ ~last'.log.threw /\ last'.log.frames = <<>>
              /\ Len(ackWaits') = Len(ackWaits)
              /\ \E i \in 1..Len(ackWaits) :
                    /\ ackWaits[i].timer /\ ~ackWaits'[i].timer
                    /\ \A j \in 1..Len(ackWaits) :
                          j # i => ackWaits'[j] = ackWaits[j]
              /\ UNCHANGED <<state, isConnecting, isConnected, isDisconnected,
                             messageID, socket, orphans, timerQueue,
                             pingInterval, pingTimers, helloTimeout,
                             cipherStream, decipherStream, sent, throttle,
                             wire>>)]_vars

\* C30 happens: the timer of a wait has fired on a connected session.
C30_TimeoutOnLiveSession ==
    /\ last.op = "ackTimeout"
    /\ isConnected /\ SocketOpen /\ state = "next"

\* C31: a sender that reaches _writeData while the socket is destroyed writes
\* nothing to the encrypt stream, leaves the count of encrypted frames (and so
\* the send IV) and the throttle as they were, throws nothing, and leaves the
\* socket and the connection flags alone; the Hello of a session installed on
\* a destroyed socket is dropped the same way.
C31_ClosedSocketWriteDiscarded ==
    [][(socket.exists /\ socket.destroyed) =>
         /\ (last'.op \in {"webhook", "ping"} /\ isConnected) =>
                /\ last'.log.frames = <<>>
                /\ ~last'.log.threw
                /\ cipherStream' = cipherStream
                /\ throttle' = throttle
                /\ wire' = wire
                /\ socket' = socket
                /\ state' = state
                /\ isConnected' = isConnected
                /\ isConnecting' = isConnecting
                /\ isDisconnected' = isDisconnected
         /\ (last'.op = "data" /\ state = "set-session-key"
                              /\ state' = "next") =>
                /\ last'.log.frames = <<>>
                /\ ~last'.log.threw
                /\ cipherStream'.written = 0
                /\ throttle' = <<>>
                /\ wire' = wire
                /\ socket'.destroyed]_vars

\* A webhook was sent by a session whose socket is destroyed.
C31_WebhookOnDestroyedSocket ==
    /\ last.op = "webhook"
    /\ socket.exists /\ socket.destroyed
    /\ isConnected
    /\ sent = 2
    /\ last.log.frames = <<>>

\* C32: every packet is written to the encrypt stream at a moment when the
\* session is Ready (_state is 'next', _isConnected is true, disconnect() has
\* not been called) and both cipher streams exist; no sender writes in any
\* other state.
C32_FramesOnlyWhenReady ==
    [][\A i \in 1..Len(last'.log.wroteIn) :
          /\ last'.log.wroteIn[i] = [state |-> "next", isConnected |-> TRUE,
                                     isDisconnected |-> FALSE]
          /\ cipherStream'.exists /\ decipherStream'.exists]_vars

\* C33: a ping tick on a Ready session writes exactly one packet, of code 0
\* and with the next message id; a tick on a session that is not Ready
\* writes nothing and changes no field.
C33_PingTickSendsOne ==
    [][last'.op = "ping" =>
         IF state = "next" /\ isConnected
         THEN /\ last'.log.frames =
                    <<[kind |-> "ping", code |-> "0",
                       mid |-> (messageID + 1) % COUNTER_MAX, token |-> 0]>>
              /\ messageID' = (messageID + 1) % COUNTER_MAX
              /\ cipherStream'.written = cipherStream.written + 1
              /\ throttle' = Append(throttle, last'.log.frames[1])
         ELSE last'.log.frames = <<>> /\ UNCHANGED progVars]_vars

\* C34: whenever connect() opens a socket, on the first connection and on
\* every reconnect, the session is in state 'nonce' and not connected once
\* connect() returns, so that the first chunk on the new socket is read as
\* the nonce.
C34_NewSocketStartsAtNonce ==
    [][(last'.op \in ConnectCalls /\ last'.log.opened)
          => (state' = "nonce" /\ ~isConnected')]_vars

\* C35: at most one ping interval of the session is running at any time, and
\* a handshake that starts one finds none running.
C35_OnePingTimer ==
    /\ [](pingTimers <= 1)
    /\ [](pingInterval <=> pingTimers = 1)
    /\ [][pingTimers' > pingTimers => pingTimers = 0]_vars

\* C35 happens: the socket failed and armed a reconnect timer that is still
\* pending, connect() opened a new socket, and the handshake on it has just
\* started the ping interval.
C35_PingArmedAfterReconnect ==
    /\ pingTimers = 1 /\ pingInterval
    /\ SocketOpen /\ socket.piped
    /\ isConnected
    /\ last.op = "data" /\ last.log.branch = "set-session-key"
    /\ Reconnects(timerQueue) = 1

\* C36: connect() never replaces a socket that is not destroyed, so the
\* session never holds more than one live socket: whenever connect() opens a
\* socket, the socket it replaces (if any) was destroyed before.
C36_OneLiveSocket ==
    /\ [](orphans = 0)
    /\ [][(last'.op \in ConnectCalls /\ last'.log.opened)
             => (socket.exists => socket.destroyed)]_vars

\* C36 happens: a reconnect timer has just opened a new socket in place of
\* the one whose failure armed it.
C36_ReconnectOpenedSocket ==
    /\ last.op = "reconnectTimer" /\ last.log.opened
    /\ SocketOpen
    /\ orphans = 0

\* C37: the ACK handlers that are registered never outnumber the waits that
\* are still outstanding (their timer armed), and a wait that completes by
\* its timeout takes its handler off the ACK event.
C37_HandlersLeaveWithTheirWait ==
    /\ [](Len(ackWaits)
            <= Cardinality({i \in 1..Len(ackWaits) : ackWaits[i].timer}))
    /\ [][last'.op = "ackTimeout" => Len(ackWaits') < Len(ackWaits)]_vars

\* C38: whatever was started and stopped, the sessions the fleet holds have
\* pairwise different device ids.
C38_NoTwoSessionsShareAnId ==
    \A i, j \in 1..Len(devices) :
       i # j => devices[i].deviceID # devices[j].deviceID

\* C38 happens: devices were stopped, so that the list of claimed ids has lost
\* an id that has a key file, and a later start has filled the fleet again, in
\* part with an id from the list and in part with a new one.
C38_RestartedAfterStop ==
    /\ fleetLast.op = "start" /\ fleetLast.amount = 2
    /\ Len(devices) = 2
    /\ devices[1].deviceID \in 1..MaxClaimed
    /\ devices[2].deviceID \notin 1..MaxClaimed
    /\ \E id \in keyFiles : id \notin Range(existingDeviceIDs)
    /\ built = 3

\* C39: stopping n devices, for any n >= 0, returns without throwing, having
\* taken exactly min(n, size of the fleet) sessions out of the fleet, all
\* different, and having called disconnect() once on each of them.
C39_StopDisconnectsMin ==
    [][(fleetLast'.op = "stop" /\ fleetLast'.amount >= 0) =>
         LET n == fleetLast'.amount
             size == Len(devices)
             stopped == fleetLast'.stopped
         IN  /\ ~fleetLast'.threw
             /\ Len(stopped) = IF n < size THEN n ELSE size
             /\ \A i, j \in 1..Len(stopped) :
                   i # j => stopped[i].serial # stopped[j].serial
             /\ \A i \in 1..Len(stopped) :
                   /\ \E k \in 1..size : devices[k].serial = stopped[i].serial
                   /\ \A k \in 1..Len(devices') :
                         devices'[k].serial # stopped[i].serial
                   /\ stopped[i].session.isDisconnected
                   /\ stopped[i].session.socket.destroyed
             /\ Len(devices') = size - Len(stopped)]_vars

====
